---- MODULE Spec2Model ----
(***************************************************************************)
(* Graph colouring by branch and bound: the DIMACS parser and the solver   *)
(* facade of logic/graph.py and logic/solver.py, the two engines behind    *)
(* the facade (sewell_solve, furini_solve), and the run page that calls    *)
(* them.                                                                   *)
(***************************************************************************)
EXTENDS Integers, Sequences, FiniteSets, TLC

\* ---------------------------------------------------------------- bounds
\* All graphs on 1..MaxN vertices are inputs, next to the named benchmarks.
MaxN == 4
\* The clock of a call advances at most MaxClock ticks.
MaxClock == 2
\* Calls of solve_* started in one behaviour of SpecFinish.
MaxRuns == 2
\* The lines of an uploaded file, and the largest N of its 'p' lines.
MaxLines == 3
MaxPN == 2

\* ------------------------------------------------------- program constants
\* "live_state is ... updated every 500 B&B nodes"
PostEvery == 500
\* The colour of a vertex that has none.
UNASSIGNED == -1

Engines == {"sewell", "furini"}

\* ------------------------------------------------------------ small helpers
Min(S) == CHOOSE x \in S : \A y \in S : x <= y
Max(S) == CHOOSE x \in S : \A y \in S : y <= x

RECURSIVE Sum(_, _)
Sum(f, S) == IF S = {} THEN 0
             ELSE LET x == CHOOSE y \in S : TRUE IN f[x] + Sum(f, S \ {x})

\* Python's sorted() on a set of integers, as a sequence.
RECURSIVE sorted(_)
sorted(S) == IF S = {} THEN <<>> ELSE <<Min(S)>> \o sorted(S \ {Min(S)})

\* The concatenation of the lists rows[0], ..., rows[k-1].
RECURSIVE Flatten(_, _)
Flatten(rows, k) == IF k = 0 THEN <<>> ELSE Flatten(rows, k - 1) \o rows[k - 1]

\* ------------------------------------------------------------ DIMACS input
\* A line of a .col file after split(): "p edge N M" is [k |-> "p", a |-> N,
\* b |-> M] (parts[2] = N), "e U V" is [k |-> "e", a |-> U, b |-> V].
PLine(n, m) == [k |-> "p", a |-> n, b |-> m]
ELine(u, v) == [k |-> "e", a |-> u, b |-> v]
\* A comment line, which the loop skips.
CLine == [k |-> "c", a |-> 0, b |-> 0]

\* The directed pairs the 'e' lines of content[1..i] put into adj.
RECURSIVE AdjPairs(_, _)
AdjPairs(content, i) ==
    IF i = 0 THEN {}
    ELSE LET l == content[i]
             rest == AdjPairs(content, i - 1)
         IN IF l.k = "e"
            THEN rest \cup {<<l.a - 1, l.b - 1>>, <<l.b - 1, l.a - 1>>}
            ELSE rest

\* n after the loop: the N of the last 'p' line, 0 when there is none.
RECURSIVE LastP(_, _)
LastP(content, i) ==
    IF i = 0 THEN 0
    ELSE IF content[i].k = "p" THEN content[i].a ELSE LastP(content, i - 1)

\* A row-start array that grows by one at every vertex, whatever the degrees.
RowStart_index(deg, i) == i

\* start[i]: the sum of the degrees of the vertices before i.
RECURSIVE RowStart(_, _)
RowStart(deg, i) == IF i = 0 THEN 0 ELSE RowStart(deg, i - 1) + deg[i - 1]

\* The parser without the test of n == 0.
parse_dimacs_unchecked(content) ==
    LET n == LastP(content, Len(content))
        adj == AdjPairs(content, Len(content))
        voisins == [i \in 0..(n - 1) |-> sorted({p[2] : p \in {q \in adj : q[1] = i}})]
        deg == [i \in 0..(n - 1) |-> Len(voisins[i])]
    IN [error |-> "none",
        n |-> n,
        m |-> Sum(deg, 0..(n - 1)) \div 2,
        voisins |-> voisins,
        adj_flat |-> Flatten(voisins, n),
        start |-> [i \in 0..(n - 1) |-> RowStart(deg, i)],
        deg |-> deg]

\* parse_dimacs: the graph descriptor, or the ValueError.  Lists indexed from
\* 0 are functions on 0..n-1; adj_flat is a sequence, adj_flat[j+1] being the
\* Python adj_flat[j].
parse_dimacs(content) ==
    LET n == LastP(content, Len(content))
        adj == AdjPairs(content, Len(content))
    IN IF n = 0
       THEN [error |-> "ValueError"]
       ELSE LET voisins == [i \in 0..(n - 1) |-> sorted({p[2] : p \in {q \in adj : q[1] = i}})]
                deg == [i \in 0..(n - 1) |-> Len(voisins[i])]
            IN [error |-> "none",
                n |-> n,
                m |-> Sum(deg, 0..(n - 1)) \div 2,
                voisins |-> voisins,
                adj_flat |-> Flatten(voisins, n),
                start |-> [i \in 0..(n - 1) |-> RowStart(deg, i)],
                deg |-> deg]

\* The CSR arrays with every row cut short by its last neighbour.
to_csr_short_rows(graph_data) ==
    [c_adj |-> [j \in 1..Len(graph_data.adj_flat) |-> graph_data.adj_flat[j]],
     c_start |-> [i \in 0..(graph_data.n - 1) |-> graph_data.start[i]],
     c_deg |-> [i \in 0..(graph_data.n - 1) |->
                   IF graph_data.deg[i] > 0 THEN graph_data.deg[i] - 1 ELSE 0]]

\* _to_csr: the three ctypes int arrays, of m = len(adj_flat), n and n cells
\* (the values are far inside the range of a C int).
to_csr(graph_data) ==
    [c_adj |-> [j \in 1..Len(graph_data.adj_flat) |-> graph_data.adj_flat[j]],
     c_start |-> [i \in 0..(graph_data.n - 1) |-> graph_data.start[i]],
     c_deg |-> [i \in 0..(graph_data.n - 1) |-> graph_data.deg[i]]]

\* ------------------------------------------------------------- input graphs
Pairs(n) == {p \in (1..n) \X (1..n) : p[1] < p[2]}

RECURSIVE EdgeLines(_)
EdgeLines(E) ==
    IF E = {} THEN <<>>
    ELSE LET e == CHOOSE x \in E : \A y \in E :
                      x[1] < y[1] \/ (x[1] = y[1] /\ x[2] <= y[2])
         IN <<ELine(e[1], e[2])>> \o EdgeLines(E \ {e})

Dimacs(n, E) == <<PLine(n, Cardinality(E))>> \o EdgeLines(E)

\* The odd cycle C5.
CycleFive == Dimacs(5, {<<1, 2>>, <<2, 3>>, <<3, 4>>, <<4, 5>>, <<1, 5>>})
\* The Petersen graph.
Petersen == Dimacs(10, {<<1, 2>>, <<2, 3>>, <<3, 4>>, <<4, 5>>, <<1, 5>>,
                        <<1, 6>>, <<2, 7>>, <<3, 8>>, <<4, 9>>, <<5, 10>>,
                        <<6, 8>>, <<7, 9>>, <<8, 10>>, <<6, 9>>, <<7, 10>>})
\* myciel3, the Groetzsch graph.
Myciel3 == Dimacs(11, {<<1, 2>>, <<1, 4>>, <<1, 7>>, <<1, 9>>, <<2, 3>>,
                       <<2, 6>>, <<2, 8>>, <<3, 5>>, <<3, 7>>, <<3, 10>>,
                       <<4, 5>>, <<4, 6>>, <<4, 10>>, <<5, 8>>, <<5, 9>>,
                       <<6, 11>>, <<7, 11>>, <<8, 11>>, <<9, 11>>, <<10, 11>>})
\* Seven vertices, chromatic number 3, on which DSATUR opens a fourth colour.
Hard7 == Dimacs(7, {<<1, 2>>, <<1, 6>>, <<1, 7>>, <<2, 5>>, <<2, 7>>,
                    <<3, 4>>, <<3, 5>>, <<3, 6>>, <<4, 5>>, <<4, 6>>})
\* Seven vertices, chromatic number 3, on which the Sewell search finds the
\* third colouring at its eighth node.
Quick7 == Dimacs(7, {<<1, 2>>, <<1, 3>>, <<1, 4>>, <<1, 5>>, <<2, 3>>, <<2, 4>>,
                     <<3, 6>>, <<4, 7>>, <<5, 6>>, <<5, 7>>, <<6, 7>>})
\* Eleven vertices, chromatic number 3, on which DSATUR uses five colours.
TwoStep11 == Dimacs(11, {<<1, 4>>, <<1, 10>>, <<2, 4>>, <<2, 5>>, <<3, 4>>,
                         <<3, 5>>, <<3, 6>>, <<3, 8>>, <<3, 9>>, <<4, 8>>,
                         <<4, 9>>, <<4, 11>>, <<5, 6>>, <<5, 7>>, <<5, 10>>,
                         <<6, 10>>, <<6, 11>>, <<7, 8>>, <<7, 10>>, <<7, 11>>,
                         <<10, 11>>})
\* Twelve vertices on which the Sewell search explores 500 nodes.
Long12 == Dimacs(12, {<<1, 2>>, <<2, 3>>, <<2, 5>>, <<2, 12>>, <<3, 8>>,
                      <<3, 10>>, <<3, 11>>, <<5, 7>>, <<5, 9>>, <<6, 12>>,
                      <<7, 9>>, <<7, 11>>, <<9, 11>>, <<10, 11>>})
\* Fourteen vertices, two of them isolated, chromatic number 3: the Sewell
\* search passes its 500th, 1000th and 1500th node and then improves UB.
Post14 == Dimacs(14, {<<1, 5>>, <<1, 7>>, <<1, 13>>, <<2, 3>>, <<2, 5>>,
                      <<2, 8>>, <<2, 11>>, <<3, 4>>, <<3, 7>>, <<4, 6>>,
                      <<4, 8>>, <<4, 11>>, <<5, 13>>, <<6, 7>>, <<7, 10>>,
                      <<7, 11>>, <<7, 13>>, <<8, 12>>, <<10, 11>>})

Benchmarks == {CycleFive, Petersen, Myciel3, Hard7, TwoStep11, Long12}

SmallGraphs == UNION {{Dimacs(n, E) : E \in SUBSET Pairs(n)} : n \in 1..MaxN}

Contents == SmallGraphs \cup Benchmarks \cup {Quick7}

\* Every file of the model.
Inputs == Contents \cup {Post14}

\* The lines of the files given to the parser: 'p' lines with N = 0 and more,
\* 'e' lines whose endpoints go from 0 to one past the largest N, comments.
FileLines ==
    {PLine(n, 0) : n \in 0..MaxPN}
        \cup {ELine(u, v) : u \in 0..(MaxPN + 1), v \in 0..(MaxPN + 1)}
        \cup {CLine}

\* The files of at most MaxLines such lines, in any order.
Files == UNION {[1..k -> FileLines] : k \in 0..MaxLines}

\* ---------------------------------------------------------------- variables
VARIABLES
    graph_data,   \* st.session_state.graph_data: what parse_dimacs returned
    temps_max,    \* st.session_state.temps_max, in clock ticks
    busy,         \* the engine whose thread the run page is waiting for
    runsLeft,     \* calls the run page may still start
    eng,          \* eng[e]: the state of the engine call of e
    clock,        \* clock[e]: ticks elapsed since the call of e began
    historique,   \* historique[e]: the list of _solve
    live,         \* live[e]: the live_state dict handed to the call
    ret,          \* ret[e]: res[0] of the thread, what the call returned
    res,          \* res[e]: st.session_state.res_sewell / res_furini
    posted,       \* posted[e]: the arguments of the callback calls of the engine
    upload,       \* the content of the file given to the load page
    load_error,   \* the load page shows "Parse error"
    page,         \* st.session_state.page
    graph_filename, \* st.session_state.graph_filename
    graph_pos     \* st.session_state.graph_pos

vars == <<graph_data, temps_max, busy, runsLeft, eng, clock, historique, live, ret, res,
         posted, upload, load_error, page, graph_filename, graph_pos>>

None == [algo |-> "None"]

\* st.session_state.graph_data before any graph is loaded.
NoGraph == [error |-> "None"]

\* The file uploader: nothing yet, or a file with its content.
NoUpload == [present |-> FALSE, content |-> <<>>]
Uploaded(c) == [present |-> TRUE, content |-> c]

\* st.session_state.graph_filename and graph_pos before any graph is loaded.
NoFilename == "None"
NoPos == [layout |-> "None"]

\* The names of the uploaded files.
FileNames == {"graph.col", "other.col"}
IsResult(r) == r.algo # "None"

\* ------------------------------------------------------------- graph view
\* The per-vertex neighbour sets built from the CSR arrays.
GraphView(n, csr) ==
    [v \in 0..(n - 1) |-> {csr.c_adj[csr.c_start[v] + j] : j \in 1..csr.c_deg[v]}]

\* --------------------------------------------------------------- heuristics
\* The members of S on which the key f is largest.
MaxBy(S, f) == {x \in S : \A y \in S : f[y] <= f[x]}

\* The greedy clique inside C: the vertex of maximum degree within C, lowest
\* id first, then the same inside its neighbours.
RECURSIVE GreedyClique(_, _)
GreedyClique(adj, C) ==
    IF C = {} THEN {}
    ELSE LET DegIn == [x \in C |-> Cardinality(adj[x] \cap C)]
             v == Min(MaxBy(C, DegIn))
         IN {v} \cup GreedyClique(adj, C \cap adj[v])

greedy_clique_lb(n, adj) == Cardinality(GreedyClique(adj, 0..(n - 1)))

Uncolored(col) == {v \in DOMAIN col : col[v] = UNASSIGNED}
UsedColors(col) == {col[v] : v \in DOMAIN col} \ {UNASSIGNED}
sat_degree(adj, col, v) == Cardinality({col[u] : u \in adj[v]} \ {UNASSIGNED})
uncolored_deg(adj, col, v) == Cardinality(adj[v] \cap Uncolored(col))
available(adj, col, UB, v) == (0..(UB - 1)) \ {col[u] : u \in adj[v]}

\* DSATUR's choice: maximum saturation, then maximum uncoloured degree, then
\* lowest id.
DsaturVertex(adj, col) ==
    LET Sat == [x \in Uncolored(col) |-> sat_degree(adj, col, x)]
        UDeg == [x \in Uncolored(col) |-> uncolored_deg(adj, col, x)]
        bySat == MaxBy(Uncolored(col), Sat)
    IN Min(MaxBy(bySat, UDeg))

RECURSIVE Dsatur(_, _)
Dsatur(adj, col) ==
    IF Uncolored(col) = {} THEN col
    ELSE LET v == DsaturVertex(adj, col)
             taken == {col[u] : u \in adj[v]}
             c == Min({x \in 0..Cardinality(DOMAIN col) : x \notin taken})
         IN Dsatur(adj, [col EXCEPT ![v] = c])

dsatur_ub(n, adj) ==
    LET col == Dsatur(adj, [v \in 0..(n - 1) |-> UNASSIGNED])
    IN [k |-> 1 + Max({col[v] : v \in 0..(n - 1)}), coloring |-> col]

\* ------------------------------------------------------------ branch and bound
\* Sewell's rule: DSATUR's two criteria, then the number of available colours
\* shared with the uncoloured neighbours, then lowest id.
SewellVertex(adj, col, UB) ==
    LET Sat == [x \in Uncolored(col) |-> sat_degree(adj, col, x)]
        UDeg == [x \in Uncolored(col) |-> uncolored_deg(adj, col, x)]
        bySat == MaxBy(Uncolored(col), Sat)
        byDeg == MaxBy(bySat, UDeg)
        Shared == [x \in byDeg |->
                      Sum([u \in adj[x] \cap Uncolored(col) |->
                              Cardinality(available(adj, col, UB, x)
                                          \cap available(adj, col, UB, u))],
                          adj[x] \cap Uncolored(col))]
    IN Min(MaxBy(byDeg, Shared))

BranchVertex(e, adj, col, UB) ==
    IF e = "sewell" THEN SewellVertex(adj, col, UB) ELSE DsaturVertex(adj, col)

\* The reduced graph R on the uncoloured vertices: neighbours in G whose
\* available sets intersect.
ReducedGraph(adj, col, UB) ==
    [u \in Uncolored(col) |->
        {w \in adj[u] \cap Uncolored(col) :
            available(adj, col, UB, u) \cap available(adj, col, UB, w) # {}}]

\* lb_node = used + omega_R.
lb_node(adj, col, UB) ==
    Cardinality(UsedColors(col))
      + Cardinality(GreedyClique(ReducedGraph(adj, col, UB), Uncolored(col)))

FuriniPrune(e, adj, col, UB) == e = "furini" /\ lb_node(adj, col, UB) >= UB

\* The colour indices from c on that v may take at a node with `used` colours
\* in use: an existing colour that is available and below UB-1, or the new
\* colour `used` while it is below UB.
Candidates(adj, col, UB, v, c, used) ==
    {x \in c..used :
        IF x < used THEN x <= UB - 2 /\ x \in available(adj, col, UB, v)
        ELSE used < UB}

\* The new colour is reached from c on and skipped because it would open
\* class UB.
NewColorCut(UB, c, used) == c <= used /\ ~(used < UB)

\* ------------------------------------------------------------- progress sink
\* A dict with the keys of a snapshot: `keys` are the keys present.
EmptyDict == [keys |-> {}, noeuds |-> 0, UB |-> 0, LB |-> 0, temps |-> 0,
              coupes |-> 0, done |-> FALSE]
SnapKeys == {"noeuds", "UB", "LB", "temps", "coupes", "done"}

\* live.update(snap)
dict_update(d, snap) ==
    [keys |-> d.keys \cup SnapKeys, noeuds |-> snap.noeuds, UB |-> snap.UB,
     LB |-> snap.LB, temps |-> snap.temps, coupes |-> snap.coupes,
     done |-> snap.done]

\* live_state.update({"done": True})
dict_set_done(d) == [d EXCEPT !.keys = @ \cup {"done"}, !.done = TRUE]

\* The callback with the snapshot put at the head of the list.
cb_inner_prepend(hl, nodes, UB, LB, t, cuts) ==
    LET snap == [noeuds |-> nodes, UB |-> UB, LB |-> LB, temps |-> t,
                 coupes |-> cuts, done |-> FALSE]
    IN [historique |-> <<snap>> \o hl.historique,
        live |-> dict_update(hl.live, snap)]

\* The callback keeping only the latest snapshot in the list, as the sink does.
cb_inner_latest(hl, nodes, UB, LB, t, cuts) ==
    LET snap == [noeuds |-> nodes, UB |-> UB, LB |-> LB, temps |-> t,
                 coupes |-> cuts, done |-> FALSE]
    IN [historique |-> <<snap>>,
        live |-> dict_update(hl.live, snap)]

\* The callback with every snapshot marked done.
cb_inner_done(hl, nodes, UB, LB, t, cuts) ==
    LET snap == [noeuds |-> nodes, UB |-> UB, LB |-> LB, temps |-> t,
                 coupes |-> cuts, done |-> TRUE]
    IN [historique |-> Append(hl.historique, snap),
        live |-> dict_update(hl.live, snap)]

\* _make_cb._inner: the snapshot is appended to historique and written over
\* live.  hl is [historique, live].
cb_inner(hl, nodes, UB, LB, t, cuts) ==
    LET snap == [noeuds |-> nodes, UB |-> UB, LB |-> LB, temps |-> t,
                 coupes |-> cuts, done |-> FALSE]
    IN [historique |-> Append(hl.historique, snap),
        live |-> dict_update(hl.live, snap)]

\* ------------------------------------------------------------ engine state
IdleEngine ==
    [pc |-> "idle", n |-> 0, adj |-> <<>>, LB |-> 0, UB |-> 0, UB_init |-> 0,
     best_color |-> <<>>, color_stack |-> <<>>, stack |-> <<>>,
     color_class_mask |-> <<>>, avail |-> <<>>, sat |-> <<>>,
     nodes |-> 0, cuts |-> 0, timeout |-> FALSE, halt |-> FALSE]

\* The start of sewell_solve / furini_solve: the clique bound, the DSATUR
\* incumbent, and the immediate return when they meet.  The root is node 1.
EngineStart(n, csr) ==
    LET adj == GraphView(n, csr)
        lb == greedy_clique_lb(n, adj)
        ub == dsatur_ub(n, adj)
    IN [pc |-> IF lb = ub.k THEN "exit" ELSE "enter",
        n |-> n, adj |-> adj, LB |-> lb, UB |-> ub.k, UB_init |-> ub.k,
        best_color |-> ub.coloring,
        color_stack |-> [v \in 0..(n - 1) |-> UNASSIGNED],
        color_class_mask |-> [c \in 0..(ub.k - 1) |-> {}],
        avail |-> [v \in 0..(n - 1) |-> 0..(ub.k - 1)],
        sat |-> [v \in 0..(n - 1) |-> 0],
        stack |-> <<>>, nodes |-> 1, cuts |-> 0,
        timeout |-> FALSE, halt |-> FALSE]

\* Where a node returns to: its parent's loop, or out of the search.
AfterNode(stack) == IF stack = <<>> THEN "exit" ELSE "loop"

\* A deadline that is never found expired.
expired_never(e) == FALSE

expired(e) == clock[e] >= temps_max

\* What the engine writes through its out pointers when it returns.
EngineOut(s, t) ==
    [out_K |-> s.UB, c_coloring |-> s.best_color, out_LB |-> s.LB,
     out_UBi |-> s.UB_init,
     out_opt |-> IF s.LB = s.UB /\ ~s.timeout THEN 1 ELSE 0,
     out_nodes |-> s.nodes, out_cuts |-> s.cuts, out_time |-> t,
     out_tout |-> IF s.timeout THEN 1 ELSE 0]

\* The dict of _solve with one field read from the wrong place.
ResultWith(algo_name, out, hist, field, value) ==
    [[algo |-> algo_name, K |-> out.out_K, coloriage |-> out.c_coloring,
      LB |-> out.out_LB, UB_init |-> out.out_UBi, optimal |-> out.out_opt # 0,
      noeuds |-> out.out_nodes, coupes |-> out.out_cuts, temps |-> out.out_time,
      timeout |-> out.out_tout # 0, historique_kpi |-> hist]
     EXCEPT ![field] = value]

\* coloriage read from a fresh array the engine never wrote.
solve_result_fresh_coloring(algo_name, out, hist) ==
    ResultWith(algo_name, out, hist, "coloriage", [v \in DOMAIN out.c_coloring |-> 0])
\* optimal taken to be "did not time out".
solve_result_optimal_no_timeout(algo_name, out, hist) ==
    ResultWith(algo_name, out, hist, "optimal", out.out_tout = 0)
\* optimal read from out_K.
solve_result_optimal_from_k(algo_name, out, hist) ==
    ResultWith(algo_name, out, hist, "optimal", out.out_K # 0)
\* UB_init read from out_LB.
solve_result_ubi_from_lb(algo_name, out, hist) ==
    ResultWith(algo_name, out, hist, "UB_init", out.out_LB)
\* K read from out_LB.
solve_result_k_from_lb(algo_name, out, hist) ==
    ResultWith(algo_name, out, hist, "K", out.out_LB)
\* timeout read from out_opt.
solve_result_timeout_from_opt(algo_name, out, hist) ==
    ResultWith(algo_name, out, hist, "timeout", out.out_opt # 0)
\* LB read from out_K.
solve_result_lb_from_k(algo_name, out, hist) ==
    ResultWith(algo_name, out, hist, "LB", out.out_K)
\* LB read from out_UBi.
solve_result_lb_from_ubi(algo_name, out, hist) ==
    ResultWith(algo_name, out, hist, "LB", out.out_UBi)
\* LB read from out_nodes.
solve_result_lb_from_nodes(algo_name, out, hist) ==
    ResultWith(algo_name, out, hist, "LB", out.out_nodes)
\* K read from out_nodes.
solve_result_k_from_nodes(algo_name, out, hist) ==
    ResultWith(algo_name, out, hist, "K", out.out_nodes)
\* noeuds read from out_time.
solve_result_nodes_from_time(algo_name, out, hist) ==
    ResultWith(algo_name, out, hist, "noeuds", out.out_time)

\* The dict _solve returns.
solve_result(algo_name, out, hist) ==
    [algo |-> algo_name,
     K |-> out.out_K,
     coloriage |-> out.c_coloring,
     LB |-> out.out_LB,
     UB_init |-> out.out_UBi,
     optimal |-> out.out_opt # 0,
     noeuds |-> out.out_nodes,
     coupes |-> out.out_cuts,
     temps |-> out.out_time,
     timeout |-> out.out_tout # 0,
     historique_kpi |-> hist]

algo_name(e) == IF e = "sewell" THEN "Sewell (1996)" ELSE "Furini (2017)"

\* ------------------------------------------------------------------ actions
\* _run_one starts the thread of e; _solve builds the CSR arrays, the
\* history list and the callback, and enters the engine.
Call(e) ==
    /\ page = "run"
    /\ busy = "none"
    /\ runsLeft > 0
    /\ busy' = e
    /\ runsLeft' = runsLeft - 1
    /\ live' = [live EXCEPT ![e] = EmptyDict]
    /\ ret' = [ret EXCEPT ![e] = None]
    /\ historique' = [historique EXCEPT ![e] = <<>>]
    /\ posted' = [posted EXCEPT ![e] = <<>>]
    /\ clock' = [clock EXCEPT ![e] = 0]
    /\ eng' = [eng EXCEPT ![e] = EngineStart(graph_data.n, to_csr(graph_data))]
    /\ UNCHANGED <<page, graph_filename, graph_pos, upload, load_error, graph_data, temps_max, res>>

\* Time passes while the engine of e runs.
Tick(e) ==
    /\ eng[e].pc # "idle"
    /\ clock[e] < MaxClock
    /\ clock' = [clock EXCEPT ![e] = @ + 1]
    /\ UNCHANGED <<page, graph_filename, graph_pos, posted, upload, load_error, graph_data, temps_max, busy, runsLeft, eng, historique, live, ret, res>>

\* Every leaf replaces the incumbent.
Improves_any_leaf(s) == Uncolored(s.color_stack) = {}

\* A node is a leaf whose colouring is smaller than the incumbent.
Improves(s) ==
    /\ Uncolored(s.color_stack) = {}
    /\ 1 + Max({s.color_stack[v] : v \in DOMAIN s.color_stack}) < s.UB

\* The snapshots the engine hands to the callback at the entry of a node,
\* `nodes` being the node count and t the elapsed time: none once the deadline
\* has passed, else one at every PostEvery-th node and one when UB improves.
NodePosts(s, nodes, t, late) ==
    IF late THEN <<>>
    ELSE (IF nodes % PostEvery = 0
          THEN <<[noeuds |-> nodes, UB |-> s.UB, LB |-> s.LB, temps |-> t,
                  coupes |-> s.cuts]>>
          ELSE <<>>)
         \o (IF Improves(s)
             THEN <<[noeuds |-> nodes,
                     UB |-> 1 + Max({s.color_stack[v] : v \in DOMAIN s.color_stack}),
                     LB |-> s.LB, temps |-> t, coupes |-> s.cuts]>>
             ELSE <<>>)

\* The callback called once for each of posts, in order.
RECURSIVE Deliver(_, _)
Deliver(hl, posts) ==
    IF posts = <<>> THEN hl
    ELSE Deliver(cb_inner(hl, posts[1].noeuds, posts[1].UB, posts[1].LB,
                          posts[1].temps, posts[1].coupes),
                 Tail(posts))

\* The entry of a B&B node: the deadline, the periodic snapshot, the leaf, the
\* Furini prune, the choice of the branching vertex.
EnterNode(e) ==
    /\ eng[e].pc = "enter"
    /\ LET s == eng[e]
           nodes == IF s.stack = <<>> THEN s.nodes ELSE s.nodes + 1
           posts == NodePosts(s, nodes, clock[e], expired(e))
           hl == Deliver([historique |-> historique[e], live |-> live[e]], posts)
           k == 1 + Max({s.color_stack[v] : v \in DOMAIN s.color_stack})
       IN /\ historique' = [historique EXCEPT ![e] = hl.historique]
          /\ live' = [live EXCEPT ![e] = hl.live]
          /\ posted' = [posted EXCEPT ![e] = @ \o posts]
          /\ IF expired(e)
             THEN eng' = [eng EXCEPT ![e] = [s EXCEPT !.nodes = nodes,
                                                     !.timeout = TRUE,
                                                     !.halt = TRUE,
                                                     !.pc = AfterNode(s.stack)]]
             ELSE IF Improves(s)
             THEN eng' = [eng EXCEPT ![e] = [s EXCEPT !.nodes = nodes,
                                                     !.UB = k,
                                                     !.best_color = s.color_stack,
                                                     !.halt = (k = s.LB),
                                                     !.pc = AfterNode(s.stack)]]
             ELSE IF Uncolored(s.color_stack) = {}
             THEN eng' = [eng EXCEPT ![e] = [s EXCEPT !.nodes = nodes,
                                                     !.pc = AfterNode(s.stack)]]
             ELSE IF FuriniPrune(e, s.adj, s.color_stack, s.UB)
             THEN eng' = [eng EXCEPT ![e] = [s EXCEPT !.nodes = nodes,
                                                     !.cuts = @ + 1,
                                                     !.pc = AfterNode(s.stack)]]
             ELSE LET v == BranchVertex(e, s.adj, s.color_stack, s.UB)
                  IN eng' = [eng EXCEPT ![e] = [s EXCEPT !.nodes = nodes,
                                                       !.stack = Append(@, [v |-> v, c |-> 0, a |-> UNASSIGNED,
                                                                          delta |-> {}]),
                                                       !.pc = "loop"]]
    /\ UNCHANGED <<page, graph_filename, graph_pos, upload, load_error, graph_data, temps_max, busy, runsLeft, clock, ret, res>>

\* assign: v takes colour c; the colour class of c gains v, and every
\* uncoloured neighbour of v that could still take c loses it and gains one
\* unit of saturation.  delta is the set of those neighbours.
assign_delta(s, v, c) ==
    {u \in s.adj[v] : s.color_stack[u] = UNASSIGNED /\ c \in s.avail[u]}

assign(s, v, c) ==
    LET delta == assign_delta(s, v, c)
    IN [s EXCEPT !.color_stack = [@ EXCEPT ![v] = c],
                 !.color_class_mask = [@ EXCEPT ![c] = @ \cup {v}],
                 !.avail = [u \in DOMAIN @ |-> IF u \in delta THEN @[u] \ {c} ELSE @[u]],
                 !.sat = [u \in DOMAIN @ |-> IF u \in delta THEN @[u] + 1 ELSE @[u]]]

\* A revert that gives the colour back to every uncoloured neighbour of v,
\* whether the assignment had taken it from that neighbour or not.
revert_all_neighbours(s, v, c, delta) ==
    LET nb == {u \in s.adj[v] : s.color_stack[u] = UNASSIGNED}
    IN [s EXCEPT !.color_stack = [@ EXCEPT ![v] = UNASSIGNED],
                 !.color_class_mask = [@ EXCEPT ![c] = @ \ {v}],
                 !.avail = [u \in DOMAIN @ |-> IF u \in nb THEN @[u] \cup {c} ELSE @[u]],
                 !.sat = [u \in DOMAIN @ |-> IF u \in delta THEN @[u] - 1 ELSE @[u]]]

\* revert: exactly the updates of the assignment of c to v are undone, delta
\* being the record the frame kept of them.
revert(s, v, c, delta) ==
    [s EXCEPT !.color_stack = [@ EXCEPT ![v] = UNASSIGNED],
              !.color_class_mask = [@ EXCEPT ![c] = @ \ {v}],
              !.avail = [u \in DOMAIN @ |-> IF u \in delta THEN @[u] \cup {c} ELSE @[u]],
              !.sat = [u \in DOMAIN @ |-> IF u \in delta THEN @[u] - 1 ELSE @[u]]]

\* The unwinding that leaves the assignments in place once the search halts.
RevertTop_unless_halt(s) ==
    LET f == s.stack[Len(s.stack)]
    IN IF f.a = UNASSIGNED \/ s.halt THEN s ELSE revert(s, f.v, f.a, f.delta)

\* The state with the assignment of the top frame, if it has one, reverted.
RevertTop(s) ==
    LET f == s.stack[Len(s.stack)]
    IN IF f.a = UNASSIGNED THEN s ELSE revert(s, f.v, f.a, f.delta)

\* One turn of the colour loop of the top frame: the assignment of the child
\* that returned is reverted; then the next candidate colour is assigned and
\* its child entered, or the frame is popped.
Branch(e) ==
    /\ eng[e].pc = "loop"
    /\ LET s == eng[e]
           f == s.stack[Len(s.stack)]
           r == RevertTop(s)
           col == r.color_stack
           used == Cardinality(UsedColors(col))
           cands == Candidates(s.adj, col, s.UB, f.v, f.c, used)
           rest == SubSeq(s.stack, 1, Len(s.stack) - 1)
       IN IF s.halt
          THEN eng' = [eng EXCEPT ![e] = [r EXCEPT !.stack = rest,
                                                  !.pc = AfterNode(rest)]]
          ELSE IF cands # {}
          THEN eng' = [eng EXCEPT ![e] =
                          [assign(r, f.v, Min(cands))
                               EXCEPT !.stack = [@ EXCEPT ![Len(s.stack)] =
                                                    [v |-> f.v, c |-> Min(cands) + 1,
                                                     a |-> Min(cands),
                                                     delta |-> assign_delta(r, f.v, Min(cands))]],
                                      !.pc = "enter"]]
          ELSE eng' = [eng EXCEPT ![e] =
                          [r EXCEPT !.stack = rest,
                                    !.cuts = IF NewColorCut(s.UB, f.c, used) THEN @ + 1 ELSE @,
                                    !.pc = AfterNode(rest)]]
    /\ UNCHANGED <<page, graph_filename, graph_pos, posted, upload, load_error, graph_data, temps_max, busy, runsLeft, clock, historique, live, ret, res>>

\* The return of a solve call whose history list is shared by the calls of the
\* process instead of being its own.
Return_shared_history(e) ==
    /\ eng[e].pc = "exit"
    /\ live' = [live EXCEPT ![e] = dict_set_done(@)]
    /\ ret' = [ret EXCEPT ![e] = solve_result(algo_name(e), EngineOut(eng[e], clock[e]),
                                               historique["sewell"] \o historique["furini"])]
    /\ eng' = [eng EXCEPT ![e] = IdleEngine]
    /\ UNCHANGED <<page, graph_filename, graph_pos, posted, upload, load_error, graph_data, temps_max, busy, runsLeft, clock, historique, res>>

\* The engine has returned: _solve marks the live dict done and returns the
\* result dict, which the thread keeps in res[0].
Return(e) ==
    /\ eng[e].pc = "exit"
    /\ live' = [live EXCEPT ![e] = dict_set_done(@)]
    /\ ret' = [ret EXCEPT ![e] = solve_result(algo_name(e), EngineOut(eng[e], clock[e]),
                                               historique[e])]
    /\ eng' = [eng EXCEPT ![e] = IdleEngine]
    /\ UNCHANGED <<page, graph_filename, graph_pos, posted, upload, load_error, graph_data, temps_max, busy, runsLeft, clock, historique, res>>

\* _run_one after the thread has ended: the live dict is marked done and the
\* result is stored in the session.
Store(e) ==
    /\ busy = e
    /\ eng[e].pc = "idle"
    /\ IsResult(ret[e])
    /\ live' = [live EXCEPT ![e] = [@ EXCEPT !.keys = @ \cup {"done"}, !.done = TRUE]]
    /\ res' = [res EXCEPT ![e] = ret[e]]
    /\ busy' = "none"
    /\ page' = "results"
    /\ UNCHANGED <<graph_filename, graph_pos, posted, upload, load_error, graph_data, temps_max, runsLeft, eng, clock, historique, ret>>

\* _run_both_parallel up to the start of the two threads: one live dict and
\* one result slot per engine, and both solve calls on the same graph_data.
CallBoth ==
    /\ page = "run"
    /\ busy = "none"
    /\ runsLeft > 0
    /\ busy' = "both"
    /\ runsLeft' = runsLeft - 1
    /\ live' = [e \in Engines |-> EmptyDict]
    /\ ret' = [e \in Engines |-> None]
    /\ historique' = [e \in Engines |-> <<>>]
    /\ posted' = [e \in Engines |-> <<>>]
    /\ clock' = [e \in Engines |-> 0]
    /\ eng' = [e \in Engines |-> EngineStart(graph_data.n, to_csr(graph_data))]
    /\ UNCHANGED <<page, graph_filename, graph_pos, upload, load_error, graph_data, temps_max, res>>

\* The driver of the parallel run that leaves its loop as soon as one thread
\* has ended.
StoreBoth_first_done ==
    /\ busy = "both"
    /\ \E e \in Engines : eng[e].pc = "idle" /\ IsResult(ret[e])
    /\ live' = [e \in Engines |-> dict_set_done(live[e])]
    /\ res' = ret
    /\ busy' = "none"
    /\ page' = "results"
    /\ UNCHANGED <<graph_filename, graph_pos, posted, upload, load_error, graph_data, temps_max, runsLeft, eng, clock, historique, ret>>

\* _run_both_parallel once neither thread is alive: both live dicts are marked
\* done and both results are stored in the session.
StoreBoth ==
    /\ busy = "both"
    /\ \A e \in Engines : eng[e].pc = "idle" /\ IsResult(ret[e])
    /\ live' = [e \in Engines |-> dict_set_done(live[e])]
    /\ res' = ret
    /\ busy' = "none"
    /\ page' = "results"
    /\ UNCHANGED <<graph_filename, graph_pos, posted, upload, load_error, graph_data, temps_max, runsLeft, eng, clock, historique, ret>>

\* build_graph_pos: the nodes and the edges of the networkx graph of the
\* preview (the layout coordinates are left out).  add_edge adds the ends of
\* an edge that are no nodes yet.
build_graph_pos(gd) ==
    LET kept == {e \in UNION {{<<u, gd.voisins[u][j]>> : j \in 1..Len(gd.voisins[u])} :
                                 u \in 0..(gd.n - 1)} : e[1] < e[2]}
    IN [nodes |-> (0..(gd.n - 1)) \cup {e[2] : e \in kept}, edges |-> kept]

\* The load page that keeps the stored results when it stores a new graph.
Load_keeps_results(name, c) ==
    /\ page = "load"
    /\ busy = "none"
    /\ upload' = Uploaded(c)
    /\ LET gd == parse_dimacs(c)
       IN IF gd.error # "none"
          THEN /\ load_error' = TRUE
               /\ UNCHANGED <<graph_data, graph_filename, graph_pos, res>>
          ELSE /\ load_error' = FALSE
               /\ graph_data' = gd
               /\ graph_filename' = name
               /\ graph_pos' = build_graph_pos(gd)
               /\ UNCHANGED res
    /\ UNCHANGED <<page, posted, temps_max, busy, runsLeft, eng, clock, historique, live, ret>>

\* The load page that drops what the session holds when the parse fails.
Load_clears(name, c) ==
    /\ page = "load"
    /\ busy = "none"
    /\ upload' = Uploaded(c)
    /\ LET gd == parse_dimacs(c)
       IN IF gd.error # "none"
          THEN /\ load_error' = TRUE
               /\ graph_data' = NoGraph
               /\ graph_filename' = NoFilename
               /\ graph_pos' = NoPos
               /\ res' = [e \in Engines |-> None]
          ELSE /\ load_error' = FALSE
               /\ graph_data' = gd
               /\ graph_filename' = name
               /\ graph_pos' = build_graph_pos(gd)
               /\ res' = [e \in Engines |-> None]
    /\ UNCHANGED <<page, posted, temps_max, busy, runsLeft, eng, clock, historique, live, ret>>

\* page_load.render once a file named name is uploaded: the file is parsed;
\* on an error the page shows it and returns; else the descriptor, the name
\* and the preview graph are put in the session and the stored results are
\* reset.
Load(name, c) ==
    /\ page = "load"
    /\ busy = "none"
    /\ upload' = Uploaded(c)
    /\ LET gd == parse_dimacs(c)
       IN IF gd.error # "none"
          THEN /\ load_error' = TRUE
               /\ UNCHANGED <<graph_data, graph_filename, graph_pos, res>>
          ELSE /\ load_error' = FALSE
               /\ graph_data' = gd
               /\ graph_filename' = name
               /\ graph_pos' = build_graph_pos(gd)
               /\ res' = [e \in Engines |-> None]
    /\ UNCHANGED <<page, posted, temps_max, busy, runsLeft, eng, clock, historique, live, ret>>

\* The button "Run Algorithms" of the load page, drawn under the preview of a
\* file that parsed.
ClickRunAlgorithms ==
    /\ page = "load"
    /\ upload.present
    /\ ~load_error
    /\ page' = "run"
    /\ UNCHANGED <<graph_filename, graph_pos, posted, upload, load_error, graph_data, temps_max, busy, runsLeft, eng, clock, historique, live, ret, res>>

\* The button "Run Again" of the results page.
ClickRunAgain ==
    /\ page = "results"
    /\ page' = "run"
    /\ UNCHANGED <<graph_filename, graph_pos, posted, upload, load_error, graph_data, temps_max, busy, runsLeft, eng, clock, historique, live, ret, res>>

\* The button "Load New File" of the run page and of the results page; the
\* uploader of the load page is drawn anew, without a file.
ClickLoadNewFile ==
    /\ page \in {"run", "results"}
    /\ busy = "none"
    /\ page' = "load"
    /\ upload' = NoUpload
    /\ load_error' = FALSE
    /\ UNCHANGED <<graph_filename, graph_pos, posted, graph_data, temps_max, busy, runsLeft, eng, clock, historique, live, ret, res>>

\* ------------------------------------------------------------ specifications
InitCommon ==
    /\ \E c \in Inputs : /\ upload = Uploaded(c)
                           /\ graph_data = parse_dimacs(c)
    /\ load_error = FALSE
    /\ page = "run"
    /\ graph_filename = "graph.col"
    /\ graph_pos = build_graph_pos(graph_data)
    /\ busy = "none"
    /\ eng = [e \in Engines |-> IdleEngine]
    /\ clock = [e \in Engines |-> 0]
    /\ historique = [e \in Engines |-> <<>>]
    /\ live = [e \in Engines |-> EmptyDict]
    /\ ret = [e \in Engines |-> None]
    /\ res = [e \in Engines |-> None]
    /\ posted = [e \in Engines |-> <<>>]

\* One call, whose deadline the clock can reach.
Init ==
    /\ InitCommon
    /\ upload.content \in Contents
    /\ temps_max \in 1..MaxClock
    /\ runsLeft = 1

\* Calls with enough time to finish: the clock cannot reach the deadline.
InitFinish ==
    /\ InitCommon
    /\ upload.content \in Contents
    /\ temps_max = MaxClock + 1
    /\ runsLeft = MaxRuns

Next ==
    \E e \in Engines :
        \/ Call(e)
        \/ Tick(e)
        \/ EnterNode(e)
        \/ Branch(e)
        \/ Return(e)
        \/ Store(e)
        \/ ClickRunAgain

Spec == Init /\ [][Next]_vars

SpecFinish == InitFinish /\ [][Next]_vars

\* The engine runs in a thread of its own that waits for nothing: a step of
\* the search or the return of the call that stays possible is taken.  The
\* clock is under no such condition.  EnterNode(e) is possible exactly while
\* the engine is at a node entry and always leaves it, so its weak fairness
\* is stated on the position of the engine.
EngineFair(e) ==
    /\ WF_vars(Branch(e))
    /\ WF_vars(Return(e))
    /\ []<>(eng[e].pc # "enter")

\* The graphs of the runs checked for their snapshots: searches short and
\* long, with and without an improvement of UB.
PostContents == {Quick7, Long12, Post14}

\* One call, whose deadline may come during the search or not at all.
InitPost ==
    /\ InitCommon
    /\ upload.content \in PostContents
    /\ temps_max \in 1..(MaxClock + 1)
    /\ runsLeft = 1

SpecPost == InitPost /\ [][Next]_vars

\* The graphs of the runs checked for termination: the engines return at
\* once on the first and search on the others.
LiveContents == {Dimacs(1, {}), CycleFive, Hard7, Quick7}

InitLive ==
    /\ Init
    /\ upload.content \in LiveContents

SpecLive == InitLive /\ [][Next]_vars /\ \A e \in Engines : EngineFair(e)

\* The graphs of the parallel runs: the engines return at once on the first
\* and search on the others.
ParContents == {Dimacs(1, {}), Quick7}

\* Runs alone and runs of both engines in parallel, with enough time to finish.
InitPar ==
    /\ InitCommon
    /\ upload.content \in ParContents
    /\ temps_max = MaxClock + 1
    /\ runsLeft = MaxRuns

NextPar ==
    \/ Next
    \/ CallBoth
    \/ StoreBoth

SpecPar == InitPar /\ [][NextPar]_vars

\* One run, of one engine or of both in parallel, with enough time to finish.
InitBoth ==
    /\ InitCommon
    /\ upload.content \in ParContents
    /\ temps_max = MaxClock + 1
    /\ runsLeft = 1

\* The run with its scheduling: each engine thread takes the steps that stay
\* possible, and the driver, which looks at the threads every 0.2 s and draws
\* the live dicts without writing to them, leaves its loop once both have
\* ended.
SpecBoth ==
    /\ InitBoth
    /\ [][NextPar]_vars
    /\ \A e \in Engines : EngineFair(e)
    /\ WF_vars(StoreBoth)

\* A session in which no file has been uploaded yet.
InitLoad ==
    /\ upload = NoUpload
    /\ graph_data = NoGraph
    /\ graph_filename = NoFilename
    /\ graph_pos = NoPos
    /\ page = "load"
    /\ load_error = FALSE
    /\ temps_max = MaxClock
    /\ runsLeft = MaxRuns
    /\ busy = "none"
    /\ eng = [e \in Engines |-> IdleEngine]
    /\ clock = [e \in Engines |-> 0]
    /\ historique = [e \in Engines |-> <<>>]
    /\ live = [e \in Engines |-> EmptyDict]
    /\ ret = [e \in Engines |-> None]
    /\ res = [e \in Engines |-> None]
    /\ posted = [e \in Engines |-> <<>>]

\* The first upload of the session.
NextLoad == ~upload.present /\ \E name \in FileNames, c \in Files : Load(name, c)

SpecLoad == InitLoad /\ [][NextLoad]_vars

\* The graphs a session starts with, and the files uploaded later in it: the
\* empty file and the files of one 'p' line, of which 'p edge 0 0' and the
\* empty file do not parse.
SessionContents == {Dimacs(1, {}), Dimacs(2, {<<1, 2>>}), CycleFive}
ReloadFiles == {<<>>} \cup {<<PLine(n, 0)>> : n \in 0..MaxPN}

\* A whole session: runs, alone or of both engines, the buttons between the
\* pages, and further uploads.
InitSession ==
    /\ InitCommon
    /\ upload.content \in SessionContents
    /\ temps_max = MaxClock + 1
    /\ runsLeft = MaxRuns

NextSession ==
    \/ NextPar
    \/ ClickRunAlgorithms
    \/ ClickLoadNewFile
    \/ \E name \in FileNames, c \in ReloadFiles : Load(name, c)

SpecSession == InitSession /\ [][NextSession]_vars

\* ------------------------------------------------------------------ claims
\* The neighbours of u in the parsed graph.
Nbrs(gd, u) == {gd.voisins[u][j] : j \in 1..Len(gd.voisins[u])}

HasEdge(gd) == \E u \in 0..(gd.n - 1) : Nbrs(gd, u) # {}

\* col gives the two ends of every edge different colours.
Proper(gd, col) ==
    \A u \in 0..(gd.n - 1) : \A v \in Nbrs(gd, u) : col[u] # col[v]

\* Every vertex has a colour in 0..K-1.
InRange(gd, col, K) ==
    /\ DOMAIN col = 0..(gd.n - 1)
    /\ \A v \in 0..(gd.n - 1) : 0 <= col[v] /\ col[v] < K

\* Vertices v..n-1 can be coloured with colours below k, given the colours col
\* of 0..v-1 (a vertex opens at most one colour beyond those in use).
RECURSIVE CanColor(_, _, _, _)
CanColor(gd, k, v, col) ==
    IF v = gd.n THEN TRUE
    ELSE LET usedNow == {col[u] : u \in 0..(v - 1)}
             top == IF Cardinality(usedNow) < k THEN Cardinality(usedNow) ELSE k - 1
         IN \E c \in 0..top :
               /\ \A u \in Nbrs(gd, v) : u < v => col[u] # c
               /\ CanColor(gd, k, v + 1, [col EXCEPT ![v] = c])

\* A proper colouring of the graph with k colours exists.
Colorable(gd, k) ==
    k >= 1 /\ CanColor(gd, k, 0, [v \in 0..(gd.n - 1) |-> UNASSIGNED])

\* The chromatic number.
Chi(gd) == Min({k \in 1..gd.n : Colorable(gd, k)})

IsGraph(c) == graph_data = parse_dimacs(c)

\* C1: every result returned by solve, finished or timed out, carries a proper
\* colouring of the input graph.
C1_Properness ==
    \A e \in Engines : IsResult(ret[e]) => Proper(graph_data, ret[e].coloriage)

\* A timed-out call returned a colouring of a graph with edges, found by the
\* search.
C1_Witness ==
    \E e \in Engines : /\ IsResult(ret[e])
                       /\ ret[e].timeout
                       /\ ret[e].K < ret[e].UB_init
                       /\ HasEdge(graph_data)

\* C2: a result with optimal = true has K equal to the chromatic number: no
\* proper colouring with K - 1 colours exists.
C2_OptimalIsChromatic ==
    \A e \in Engines :
        (IsResult(ret[e]) /\ ret[e].optimal)
            => /\ Proper(graph_data, ret[e].coloriage)
               /\ InRange(graph_data, ret[e].coloriage, ret[e].K)
               /\ ~Colorable(graph_data, ret[e].K - 1)

\* A search that improved the DSATUR colouring returned optimal = true.
C2_Witness ==
    \E e \in Engines : /\ IsResult(ret[e])
                       /\ ret[e].optimal
                       /\ ret[e].K < ret[e].UB_init

\* C3: when both engines finished without timeout on the same graph, they
\* returned the same K.
C3_EnginesAgree ==
    (/\ IsResult(res["sewell"]) /\ ~res["sewell"].timeout
     /\ IsResult(res["furini"]) /\ ~res["furini"].timeout)
        => res["sewell"].K = res["furini"].K

\* C4: on C5, the Petersen graph and myciel3 a search that finishes within
\* its deadline returns K = chi(G) with optimal = true.
C4_BenchmarksOptimal ==
    \A e \in Engines :
        (IsResult(ret[e]) /\ ~ret[e].timeout)
            => /\ IsGraph(CycleFive) => (ret[e].K = 3 /\ ret[e].optimal)
               /\ IsGraph(Petersen) => (ret[e].K = 3 /\ ret[e].optimal)
               /\ IsGraph(Myciel3) => (ret[e].K = 4 /\ ret[e].optimal)

\* C5: in every result optimal is true exactly when LB = K and timeout is
\* false.
C5_OptimalFlag ==
    \A e \in Engines :
        IsResult(ret[e])
            => (ret[e].optimal <=> (ret[e].LB = ret[e].K /\ ~ret[e].timeout))

\* A search ran to its end without meeting the lower bound: not optimal, not
\* timed out.
C5_Witness ==
    \E e \in Engines : /\ IsResult(ret[e])
                       /\ ~ret[e].timeout
                       /\ ret[e].LB < ret[e].K
                       /\ ret[e].noeuds > 1

\* C6: every result has LB <= K <= UB_init, UB_init being the size of the
\* DSATUR colouring of the graph.
C6_BoundSandwich ==
    \A e \in Engines :
        IsResult(ret[e])
            => /\ ret[e].LB <= ret[e].K
               /\ ret[e].K <= ret[e].UB_init
               /\ ret[e].UB_init
                    = dsatur_ub(graph_data.n,
                                GraphView(graph_data.n, to_csr(graph_data))).k

\* A result strictly between its bounds.
C6_Witness ==
    \E e \in Engines : /\ IsResult(ret[e])
                       /\ ret[e].LB < ret[e].K
                       /\ ret[e].K < ret[e].UB_init

\* C7: in every result each vertex has a colour in 0..K-1.
C7_ColorRange ==
    \A e \in Engines :
        IsResult(ret[e]) => InRange(graph_data, ret[e].coloriage, ret[e].K)

\* A result of a search whose colouring uses its last colour K-1, above LB-1.
C7_Witness ==
    \E e \in Engines : /\ IsResult(ret[e])
                       /\ ret[e].noeuds > 1
                       /\ ret[e].LB < ret[e].K
                       /\ \E v \in 0..(graph_data.n - 1) : ret[e].coloriage[v] = ret[e].K - 1

\* C8: a node entered after the deadline marks the timeout; from then on no
\* node is entered and no frame is pushed, the incumbent is kept, and the call
\* returns timeout = true with the incumbent, a complete proper colouring of
\* size K <= UB_init, and optimal = false.
C8_Step(e) ==
    /\ (eng[e].pc = "enter" /\ expired(e) /\ eng'[e] # eng[e]) => eng'[e].timeout
    /\ (eng[e].timeout /\ eng'[e].pc # "idle")
          => /\ eng'[e].timeout
             /\ eng'[e].nodes = eng[e].nodes
             /\ Len(eng'[e].stack) <= Len(eng[e].stack)
             /\ eng'[e].pc # "enter"
             /\ eng'[e].best_color = eng[e].best_color
             /\ eng'[e].UB = eng[e].UB
    /\ (eng[e].timeout /\ eng'[e].pc = "idle")
          => /\ IsResult(ret'[e])
             /\ ret'[e].timeout
             /\ ret'[e].coloriage = eng[e].best_color
             /\ ret'[e].K = eng[e].UB
    /\ (IsResult(ret'[e]) /\ ret'[e].timeout)
          => /\ ~ret'[e].optimal
             /\ Proper(graph_data, ret'[e].coloriage)
             /\ InRange(graph_data, ret'[e].coloriage, ret'[e].K)
             /\ ret'[e].K <= ret'[e].UB_init

C8_Timeout == [][\A e \in Engines : C8_Step(e)]_vars

\* A call that timed out deep in its search, after it had improved the
\* incumbent, has returned.
C8_Witness ==
    \E e \in Engines : /\ IsResult(ret[e])
                       /\ ret[e].timeout
                       /\ ret[e].K < ret[e].UB_init
                       /\ ret[e].noeuds > 2

\* The snapshots h[1..] are monotone: nodes, cuts and elapsed never decrease,
\* UB never increases.
Monotone(h) ==
    \A i \in 1..(Len(h) - 1) :
        /\ h[i].noeuds <= h[i + 1].noeuds
        /\ h[i].coupes <= h[i + 1].coupes
        /\ h[i].temps <= h[i + 1].temps
        /\ h[i].UB >= h[i + 1].UB

\* C9: within one run the snapshots delivered so far, and the history of the
\* result, are monotone.
C9_MonotoneSnapshots ==
    \A e \in Engines :
        /\ Monotone(historique[e])
        /\ IsResult(ret[e]) => Monotone(ret[e].historique_kpi)

\* Two snapshots of one run between which nodes, cuts and elapsed grew and UB
\* fell.
C9_Witness ==
    \E e \in Engines :
        /\ Len(historique[e]) >= 2
        /\ historique[e][1].noeuds < historique[e][2].noeuds
        /\ historique[e][1].coupes < historique[e][2].coupes
        /\ historique[e][1].temps < historique[e][2].temps
        /\ historique[e][1].UB > historique[e][2].UB

SnapOf(p) == [noeuds |-> p.noeuds, UB |-> p.UB, LB |-> p.LB, temps |-> p.temps,
              coupes |-> p.coupes, done |-> FALSE]

\* A snapshot and a result with the elapsed time left out.
NoTime(snap) == [snap EXCEPT !.temps = 0]
ResultNoTime(r) ==
    [r EXCEPT !.temps = 0,
              !.historique_kpi = [i \in 1..Len(@) |-> NoTime(@[i])]]

\* C11: when both engines run in parallel threads on the same graph data, the
\* result of each call names its own engine, its history holds the snapshots
\* its own engine posted and nothing else, it equals the stored result of the
\* same call run alone before (elapsed time aside), and the graph data is
\* still what the parser returned.
C11_Isolation ==
    \A e \in Engines :
        (busy = "both" /\ IsResult(ret[e]))
            => /\ ret[e].algo = algo_name(e)
               /\ ret[e].historique_kpi = [i \in 1..Len(posted[e]) |-> SnapOf(posted[e][i])]
               /\ IsResult(res[e]) => ResultNoTime(ret[e]) = ResultNoTime(res[e])
               /\ graph_data = parse_dimacs(upload.content)

\* Both parallel calls have returned, the two engines posted different
\* snapshots, and one of them ran alone before and took another time.
C11_Witness ==
    /\ busy = "both"
    /\ \A e \in Engines : IsResult(ret[e])
    /\ ret["sewell"].historique_kpi # <<>>
    /\ ret["sewell"].historique_kpi # ret["furini"].historique_kpi
    /\ \E e \in Engines : /\ IsResult(res[e])
                          /\ res[e].noeuds > 1
                          /\ res[e].temps # ret[e].temps

\* C12: once a solve call has returned, its sink holds the terminal snapshot:
\* done is true and the sink has a UB, equal to the returned K, also when the
\* engine posted no snapshot during the call.
C12_FinalSnapshot ==
    \A e \in Engines :
        IsResult(ret[e])
            => /\ "done" \in live[e].keys
               /\ live[e].done
               /\ "UB" \in live[e].keys
               /\ live[e].UB = ret[e].K

\* C13: done is true only on the terminal snapshot.  After every step, each
\* snapshot posted so far has done = false, the sink of an engine that has not
\* returned has done = false, and a sink whose done is true is left as it is
\* until the next call empties it.
C13_Step(e) ==
    /\ \A i \in 1..Len(historique'[e]) : ~historique'[e][i].done
    /\ live'[e].done => (eng'[e].pc = "idle" /\ IsResult(ret'[e]))
    /\ live[e].done => (live'[e] = live[e] \/ live'[e] = EmptyDict)

C13_DoneOnlyAtEnd == [][\A e \in Engines : C13_Step(e)]_vars

\* An engine that posted a snapshot has returned and its sink is done, while
\* the other thread of the parallel run is still searching.
C13_Witness ==
    /\ busy = "both"
    /\ \E e \in Engines : /\ live[e].done
                          /\ historique[e] # <<>>
    /\ \E e \in Engines : eng[e].pc = "loop"

\* C14: the history of a result is exactly the sequence of snapshots the
\* engine handed to the callback during that call, in the order of the calls,
\* none dropped; and while the engine runs the list holds the calls so far.
C14_HistoryIsDelivered ==
    \A e \in Engines :
        /\ Len(historique[e]) = Len(posted[e])
        /\ \A i \in 1..Len(posted[e]) : historique[e][i] = SnapOf(posted[e][i])
        /\ IsResult(ret[e]) => ret[e].historique_kpi = historique[e]

\* A call has returned after the engine posted two snapshots and more: the
\* sink kept the last one only, the history holds them all.
C14_Witness ==
    \E e \in Engines : /\ IsResult(ret[e])
                       /\ Len(posted[e]) >= 2
                       /\ Len(ret[e].historique_kpi) = Len(posted[e])
                       /\ live[e].noeuds = posted[e][Len(posted[e])].noeuds
                       /\ live[e].noeuds # posted[e][1].noeuds

\* Every two distinct vertices of the parsed graph are adjacent.
IsComplete(gd) ==
    \A u \in 0..(gd.n - 1) : Nbrs(gd, u) = (0..(gd.n - 1)) \ {u}

\* C15: on a complete graph K_n both engines return K = n, LB = n,
\* optimal = true and nodes = 1: the heuristics settle it, nothing is branched.
C15_CompleteGraph ==
    \A e \in Engines :
        (IsResult(ret[e]) /\ IsComplete(graph_data))
            => /\ ret[e].K = graph_data.n
               /\ ret[e].LB = graph_data.n
               /\ ret[e].optimal
               /\ ret[e].noeuds = 1
               /\ ret[e].coupes = 0
               /\ ~ret[e].timeout

\* A call on a complete graph of three vertices or more has returned.
C15_Witness ==
    \E e \in Engines : /\ IsResult(ret[e])
                       /\ IsComplete(graph_data)
                       /\ graph_data.n >= 3
                       /\ ret[e].K = graph_data.n

\* C16: on every bipartite graph with at least one edge, connected or not,
\* both engines return K = 2.
C16_Bipartite ==
    \A e \in Engines :
        (IsResult(ret[e]) /\ HasEdge(graph_data) /\ Colorable(graph_data, 2))
            => ret[e].K = 2

\* A call has returned on a bipartite graph that is not connected: two edges
\* without a common vertex, on four vertices.
C16_Witness ==
    \E e \in Engines : /\ IsResult(ret[e])
                       /\ graph_data.n = 4
                       /\ \A u \in 0..3 : graph_data.deg[u] = 1
                       /\ Colorable(graph_data, 2)
                       /\ ret[e].K = 2

\* The indices of the 'p' lines of a file.
PLinesOf(c) == {i \in 1..Len(c) : c[i].k = "p"}

\* The file has no 'p' line, or its 'p' line (the last, when it has several)
\* declares no vertex.
NoVertices(c) == PLinesOf(c) = {} \/ c[Max(PLinesOf(c))].a = 0

\* C17: parse_dimacs fails with an error and returns no graph whenever the
\* file has no 'p' line or the 'p' line declares n = 0, and it never returns a
\* descriptor with n = 0.
C17_NoVerticesFails ==
    upload.present
        => /\ NoVertices(upload.content) => (load_error /\ graph_data = NoGraph)
           /\ graph_data # NoGraph => graph_data.n # 0

\* The parse of a file with edge lines and a 'p' line declaring 0 vertices has
\* failed.
C17_Witness ==
    /\ upload.present
    /\ load_error
    /\ \E i \in 1..Len(upload.content) :
           upload.content[i].k = "p" /\ upload.content[i].a = 0
    /\ \E i \in 1..Len(upload.content) : upload.content[i].k = "e"

\* C18: every entry of adj_flat of a descriptor that parse_dimacs returns is
\* a vertex index, 0 <= adj_flat[i] < n, whatever the 'e' lines of the file.
C18_AdjInRange ==
    graph_data # NoGraph
        => \A j \in 1..Len(graph_data.adj_flat) :
               0 <= graph_data.adj_flat[j] /\ graph_data.adj_flat[j] < graph_data.n

\* C19: the adjacency of a descriptor that parse_dimacs returns is symmetric:
\* when v is in the row of u, v has a row and u is in it.
C19_Symmetric ==
    graph_data # NoGraph
        => \A u \in 0..(graph_data.n - 1) : \A v \in Nbrs(graph_data, u) :
               v \in 0..(graph_data.n - 1) /\ u \in Nbrs(graph_data, v)

\* C20: no vertex is in its own row in a descriptor that parse_dimacs
\* returns, also when the file has a line 'e U U'.
C20_NoSelfLoop ==
    graph_data # NoGraph
        => \A u \in 0..(graph_data.n - 1) : u \notin Nbrs(graph_data, u)

\* C21 as stated: the row-start array of a descriptor that parse_dimacs
\* returns is strictly increasing, start[i] < start[i+1] for every two
\* consecutive vertices, also when the graph has vertices of degree 0.
C21_StartStrict ==
    graph_data # NoGraph
        => \A i \in 0..(graph_data.n - 2) : graph_data.start[i] < graph_data.start[i + 1]

\* C21 amended: the row-start array starts at 0 and grows by the degree of the
\* vertex at each step, start[i+1] = start[i] + deg[i]; it never decreases and
\* it stays equal exactly at the vertices of degree 0.
C21_StartByDegree ==
    graph_data # NoGraph
        => /\ graph_data.n >= 1 => graph_data.start[0] = 0
           /\ \A i \in 0..(graph_data.n - 2) :
                  /\ graph_data.start[i + 1] = graph_data.start[i] + graph_data.deg[i]
                  /\ graph_data.start[i] <= graph_data.start[i + 1]
                  /\ (graph_data.start[i] = graph_data.start[i + 1]) <=> (graph_data.deg[i] = 0)

\* A parsed graph of two isolated vertices: the two rows start at the same
\* place.
C21_Witness ==
    /\ graph_data # NoGraph
    /\ graph_data.n = 2
    /\ graph_data.deg[0] = 0
    /\ graph_data.adj_flat = <<>>
    /\ graph_data.start[0] = graph_data.start[1]

\* C22: in a descriptor that parse_dimacs returns, deg[v] is the number of
\* distinct neighbours of v, and the sum of the degrees is even, equal to 2*m
\* and to the length of adj_flat.
C22_Degrees ==
    graph_data # NoGraph
        => LET total == Sum(graph_data.deg, 0..(graph_data.n - 1))
           IN /\ \A v \in 0..(graph_data.n - 1) :
                     graph_data.deg[v] = Cardinality(Nbrs(graph_data, v))
              /\ total % 2 = 0
              /\ total = 2 * graph_data.m
              /\ total = Len(graph_data.adj_flat)

\* C23: a file that does not parse is rejected before any solve begins and
\* leaves the session as it was: in a step of the load page that ends with the
\* parse error shown for a new upload, the stored graph data, file name,
\* layout and results do not change and the page stays the load page; and
\* while the error is shown the page is the load page and no solve is running.
C23_Step ==
    /\ (load_error' /\ upload' # upload)
           => /\ graph_data' = graph_data
              /\ graph_filename' = graph_filename
              /\ graph_pos' = graph_pos
              /\ res' = res
              /\ page' = page
    /\ load_error' => (page' = "load" /\ busy' = "none"
                        /\ \A e \in Engines : eng'[e].pc = "idle")

C23_FailedLoadLeavesSession == [][C23_Step]_vars

\* The load page shows the parse error of a file uploaded in a session that
\* holds a graph and a stored result.
C23_Witness ==
    /\ load_error
    /\ upload.present
    /\ graph_data # NoGraph
    /\ graph_filename # NoFilename
    /\ \E e \in Engines : IsResult(res[e])

\* The partial colouring col can be completed to a proper colouring with the
\* colours 0..k-1.
RECURSIVE Completable(_, _, _)
Completable(adj, col, k) ==
    IF Uncolored(col) = {} THEN TRUE
    ELSE LET v == Min(Uncolored(col))
         IN \E c \in 0..(k - 1) :
               /\ c \notin {col[u] : u \in adj[v]}
               /\ Completable(adj, [col EXCEPT ![v] = c], k)

\* The engine of e is at the entry of a node that the Furini prune cuts.
AtFuriniPrune(e) ==
    /\ eng[e].pc = "enter"
    /\ ~expired(e)
    /\ Uncolored(eng[e].color_stack) # {}
    /\ FuriniPrune(e, eng[e].adj, eng[e].color_stack, eng[e].UB)

\* C24: the Furini prune is sound: at a node cut because used + omega_R >= UB
\* the partial assignment has no completion that is a proper colouring with
\* fewer than UB colours.
C24_PruneSound ==
    \A e \in Engines :
        AtFuriniPrune(e)
            => ~Completable(eng[e].adj, eng[e].color_stack, eng[e].UB - 1)

\* No two adjacent coloured vertices of the graph carry the same colour.
ProperPartial(gd, col) ==
    \A u \in 0..(gd.n - 1) : \A v \in Nbrs(gd, u) :
        (col[u] # UNASSIGNED /\ col[v] # UNASSIGNED) => col[u] # col[v]

\* C25: at every point of the search, after any assign and revert steps and
\* after any tightening of UB, the partial assignment is proper on the input
\* graph, and its colours are below UB.
C25_PartialProper ==
    \A e \in Engines :
        eng[e].pc # "idle"
            => /\ ProperPartial(graph_data, eng[e].color_stack)
               /\ \A v \in 0..(graph_data.n - 1) : eng[e].color_stack[v] < eng[e].UB_init

\* A node entered after UB was tightened and after colours were reverted,
\* with three vertices coloured and one not.
C25_Witness ==
    \E e \in Engines :
        /\ eng[e].pc = "enter"
        /\ eng[e].UB < eng[e].UB_init
        /\ eng[e].cuts > 0
        /\ Cardinality(UsedColors(eng[e].color_stack)) >= 2
        /\ Cardinality(Uncolored(eng[e].color_stack)) >= 1
        /\ Cardinality(DOMAIN eng[e].color_stack \ Uncolored(eng[e].color_stack)) >= 3

\* available[v] as the engine of e reads it: the maintained bits below UB.
available_bits(e, v) == eng[e].avail[v] \cap (0..(eng[e].UB - 1))

\* The colours 0..UB-1 minus those of the coloured neighbours of v in the
\* input graph.
LegalColors(e, v) ==
    (0..(eng[e].UB - 1))
        \ ({eng[e].color_stack[u] : u \in Nbrs(graph_data, v)} \ {UNASSIGNED})

\* The engine of e is inside the search or has just left it.
Searching(e) == eng[e].pc \in {"enter", "loop", "exit"}

\* C26 as stated: at every node of the search and for every vertex v, coloured
\* or not, the maintained available[v] is {0..UB-1} minus the colours of the
\* coloured neighbours of v.
C26_AvailableAll ==
    \A e \in Engines :
        Searching(e)
            => \A v \in 0..(graph_data.n - 1) : available_bits(e, v) = LegalColors(e, v)

\* C26 amended: the same for every vertex v that is not coloured, together
\* with its saturation; also after reverts and after UB has been tightened.
C26_AvailableUncolored ==
    \A e \in Engines :
        Searching(e)
            => \A v \in Uncolored(eng[e].color_stack) :
                   /\ available_bits(e, v) = LegalColors(e, v)
                   /\ eng[e].sat[v]
                        = Cardinality({eng[e].color_stack[u] : u \in Nbrs(graph_data, v)}
                                          \ {UNASSIGNED})

\* After UB was tightened, the child of the top frame has returned and its
\* colour is about to be reverted; an uncoloured neighbour of the frame's
\* vertex is not in the frame's delta, because another of its neighbours
\* carries the same colour.
C26_Witness ==
    \E e \in Engines :
        /\ eng[e].pc = "loop"
        /\ eng[e].UB < eng[e].UB_init
        /\ LET f == eng[e].stack[Len(eng[e].stack)]
           IN /\ f.a # UNASSIGNED
              /\ \E v \in eng[e].adj[f.v] \ f.delta :
                     /\ eng[e].color_stack[v] = UNASSIGNED
                     /\ \E u \in eng[e].adj[v] \ {f.v} : eng[e].color_stack[u] = f.a

\* C27: every branch pushed is popped before solve returns: when the search
\* is left, by exhaustion, by LB meeting UB or at the deadline, the stack is
\* empty, color_stack is all UNASSIGNED and the colour classes, the
\* saturations and the available sets are what they were at the start.
C27_RevertComplete ==
    \A e \in Engines :
        eng[e].pc = "exit"
            => /\ eng[e].stack = <<>>
               /\ \A v \in 0..(eng[e].n - 1) :
                      /\ eng[e].color_stack[v] = UNASSIGNED
                      /\ eng[e].sat[v] = 0
                      /\ eng[e].avail[v] = 0..(eng[e].UB_init - 1)
               /\ \A c \in 0..(eng[e].UB_init - 1) : eng[e].color_class_mask[c] = {}

\* The search has been left at the deadline after it tightened UB.
C27_Witness ==
    \E e \in Engines :
        /\ eng[e].pc = "exit"
        /\ eng[e].timeout
        /\ eng[e].nodes > 2
        /\ eng[e].UB < eng[e].UB_init

\* The adjacency of the parsed graph, one neighbour set per vertex.
AdjOf(gd) == [v \in 0..(gd.n - 1) |-> Nbrs(gd, v)]

\* The greedy clique bound of the input graph.
InitialLB(gd) == greedy_clique_lb(gd.n, AdjOf(gd))

\* C28: the global LB is set once from the greedy clique bound and the search
\* never changes it: during the run, in every snapshot and in the result, of
\* Furini too, LB is the clique bound of the input graph.
C28_LBFixed ==
    \A e \in Engines :
        /\ eng[e].pc # "idle" => eng[e].LB = InitialLB(graph_data)
        /\ (busy # "none" /\ historique[e] # <<>>)
               => \A i \in 1..Len(historique[e]) : historique[e][i].LB = InitialLB(graph_data)
        /\ (busy # "none" /\ IsResult(ret[e])) => ret[e].LB = InitialLB(graph_data)

\* A Furini call has returned after it pruned a node whose lb_node was above
\* the clique bound, and a Sewell call after it posted a snapshot.
C28_Witness ==
    \/ /\ IsResult(ret["furini"])
       /\ busy = "furini"
       /\ ret["furini"].coupes > 0
       /\ ret["furini"].LB < ret["furini"].K
    \/ /\ IsResult(ret["sewell"])
       /\ busy = "sewell"
       /\ ret["sewell"].historique_kpi # <<>>
       /\ ret["sewell"].LB < ret["sewell"].UB_init

\* C29: the reported LB is a valid lower bound: the greedy clique is a set of
\* pairwise adjacent vertices of the graph, and LB <= chi(G) <= K in every
\* result.
C29_LBValid ==
    \A e \in Engines :
        (busy # "none" /\ IsResult(ret[e]))
            => /\ LET Q == GreedyClique(AdjOf(graph_data), 0..(graph_data.n - 1))
                  IN /\ \A u \in Q : \A v \in Q \ {u} : v \in Nbrs(graph_data, u)
                     /\ ret[e].LB = Cardinality(Q)
               /\ ret[e].LB >= 1
               /\ ~Colorable(graph_data, ret[e].LB - 1)
               /\ Colorable(graph_data, ret[e].K)

\* A call has returned with LB < chi(G) < K.
C29_Witness ==
    \E e \in Engines :
        /\ busy = e
        /\ IsResult(ret[e])
        /\ ret[e].LB < ret[e].K
        /\ ~Colorable(graph_data, ret[e].LB)
        /\ Colorable(graph_data, ret[e].K - 1)

\* The incumbent of engine e is a complete proper colouring of the input graph
\* that uses exactly UB colours, and UB is at most UB_init.
IncumbentWitnessesUB(s, gd) ==
    /\ DOMAIN s.best_color = 0..(gd.n - 1)
    /\ \A v \in DOMAIN s.best_color : s.best_color[v] \in 0..(s.UB - 1)
    /\ Proper(gd, s.best_color)
    /\ 1 + Max({s.best_color[v] : v \in DOMAIN s.best_color}) = s.UB
    /\ s.UB <= s.UB_init

\* One step of engine e inside a run: the incumbent and UB change together,
\* only at the entry of a leaf whose colour count is below UB, and UB goes
\* strictly down to that count.
C30_Step(e) ==
    (eng[e].pc # "idle" /\ eng'[e].pc # "idle")
        => /\ IncumbentWitnessesUB(eng'[e], graph_data)
           /\ (eng'[e].UB # eng[e].UB \/ eng'[e].best_color # eng[e].best_color)
                 => /\ eng[e].pc = "enter"
                    /\ Uncolored(eng[e].color_stack) = {}
                    /\ eng'[e].UB < eng[e].UB
                    /\ eng'[e].UB = 1 + Max({eng[e].color_stack[v] : v \in DOMAIN eng[e].color_stack})
                    /\ eng'[e].best_color = eng[e].color_stack

\* C30: best_color is at every point of the search a complete proper
\* colouring that witnesses UB (1 + its largest colour = UB); it is replaced
\* only at a leaf with k < UB, UB strictly decreases at each update and is
\* never above UB_init.
C30_Incumbent ==
    [][\A e \in Engines :
          /\ C30_Step(e)
          /\ eng'[e].pc # "idle" => IncumbentWitnessesUB(eng'[e], graph_data')]_vars

\* The search has replaced the incumbent: UB is below UB_init and the search
\* goes on.
C30_Witness ==
    \E e \in Engines : /\ eng[e].pc = "loop"
                       /\ eng[e].UB < eng[e].UB_init
                       /\ IncumbentWitnessesUB(eng[e], graph_data)

\* The colours assigned on the current branch.
Assigned(col) == {v \in DOMAIN col : col[v] # UNASSIGNED}

\* One step of engine e with respect to the deadline and the end of the
\* search.
C31_Step(e) ==
    /\ \* The search is left with an empty stack, and for one of three
       \* reasons: LB met UB, the deadline, or nothing left to enumerate.
       (eng[e].pc \in {"enter", "loop"} /\ eng'[e].pc = "exit")
           => /\ eng'[e].stack = <<>>
              /\ \/ eng'[e].LB = eng'[e].UB
                 \/ eng'[e].timeout
                 \/ ~eng'[e].halt
    /\ \* At an expired deadline a node entry returns: it expands nothing.
       (eng[e].pc = "enter" /\ clock[e] >= temps_max /\ eng'[e] # eng[e])
           => /\ eng'[e].timeout
              /\ eng'[e].stack = eng[e].stack
              /\ eng'[e].pc = AfterNode(eng[e].stack)
              /\ eng'[e].UB = eng[e].UB
    /\ \* Once the timeout is marked no colour is assigned, no frame is
       \* pushed and no node is entered.
       (eng[e].timeout /\ eng'[e].pc # "idle")
           => /\ Len(eng'[e].stack) <= Len(eng[e].stack)
              /\ Assigned(eng'[e].color_stack) \subseteq Assigned(eng[e].color_stack)
              /\ eng'[e].nodes = eng[e].nodes
              /\ eng'[e].pc # "enter"
              /\ eng'[e].timeout

\* C31: every solve call terminates: the search ends when the stack unwinds
\* empty, when LB meets UB or when the deadline expires, the call then
\* returns its result, and once the deadline has been found expired at a node
\* entry no further branch is opened.
C31_Terminates ==
    /\ [][\A e \in Engines : C31_Step(e)]_vars
    /\ \A e \in Engines :
           (eng[e].pc # "idle") ~> (eng[e].pc = "idle" /\ IsResult(ret[e]))

\* A call has returned after the deadline stopped a search several frames
\* deep, and another after the search was exhausted with LB below UB.
C31_Witness ==
    \E e \in Engines :
        /\ busy = e
        /\ IsResult(ret[e])
        /\ ret[e].noeuds > 2
        /\ \/ ret[e].timeout
           \/ ~ret[e].timeout /\ ret[e].LB < ret[e].K

\* The snapshots of history h whose node count is k.
PostsAt(h, k) == {i \in 1..Len(h) : h[i].noeuds = k}

\* C32: an engine posts a snapshot at every 500th explored node and at every
\* improvement of UB: every value UB takes after the initial one is in the
\* history, a snapshot stands at every multiple of 500 the node count has
\* passed, and consecutive snapshots are at most 500 nodes apart.
C32_Posts ==
    \A e \in Engines :
        (busy = e /\ eng[e].pc \in {"enter", "loop", "exit"})
            => LET h == historique[e]
                   s == eng[e]
               IN /\ s.UB < s.UB_init => \E i \in 1..Len(h) : h[i].UB = s.UB
                  /\ \A k \in 1..(s.nodes \div 500) :
                         (500 * k < s.nodes \/ ~s.timeout) => PostsAt(h, 500 * k) # {}
                  /\ h # <<>> => h[1].noeuds <= 500
                  /\ \A i \in 1..(Len(h) - 1) :
                         /\ h[i].noeuds <= h[i + 1].noeuds
                         /\ h[i + 1].noeuds - h[i].noeuds <= 500
                  /\ s.nodes - (IF h = <<>> THEN 0 ELSE h[Len(h)].noeuds) <= 500

\* A search has passed its 1000th node and improved UB after that: the
\* history holds the snapshots of node 500 and node 1000 and one of the
\* improved UB.
C32_Witness ==
    \E e \in Engines :
        /\ busy = e
        /\ eng[e].pc = "exit"
        /\ eng[e].nodes > 1000
        /\ eng[e].UB < eng[e].UB_init
        /\ PostsAt(historique[e], 500) # {}
        /\ PostsAt(historique[e], 1000) # {}
        /\ \E i \in 1..Len(historique[e]) : historique[e][i].UB = eng[e].UB

\* Thread e of the parallel run is alive: its solve call has not returned.
Alive(e) == eng[e].pc # "idle"

\* One step during a parallel run.
C33_Step ==
    busy = "both"
        => /\ \* The results are stored and the page is left in one step, taken
              \* when both threads have ended; each engine's result is the
              \* value its own call returned.
              (res' # res \/ page' # page \/ busy' # busy)
                  => /\ \A e \in Engines : ~Alive(e) /\ IsResult(ret[e])
                     /\ \A e \in Engines : res'[e] = ret[e] /\ res'[e].algo = algo_name(e)
                     /\ page' = "results"
                     /\ busy' = "none"
                     /\ UNCHANGED <<eng, ret, clock, historique>>
           /\ \* While a thread is alive the driver changes nothing of the
              \* session, and an engine is ended by nothing but its own return.
              (\E e \in Engines : Alive(e))
                  => /\ UNCHANGED <<res, page, busy, graph_data, temps_max>>
                     /\ \A e \in Engines :
                            /\ (Alive(e) /\ ~Alive(e)')
                                   => /\ eng[e].pc = "exit"
                                      /\ IsResult(ret'[e])
                                      /\ ~ret'[e].timeout
                            /\ Alive(e) => eng'[e].timeout = eng[e].timeout
                            /\ Alive(e) => eng'[e].halt = eng[e].halt
                                              \/ eng'[e].UB = eng'[e].LB
                            /\ ~Alive(e) => eng'[e] = eng[e] /\ ret'[e] = ret[e]

\* C33: in run-both mode the driver stores the two results and moves to the
\* results page only after both threads have ended; while a thread is alive
\* it changes nothing and neither blocks nor stops an engine, so both calls
\* return and the results get stored; each stored result is the value the
\* engine's own call returned.
C33_RunBoth ==
    /\ [][C33_Step]_vars
    /\ (busy = "both") ~> (/\ busy = "none"
                           /\ page = "results"
                           /\ \A e \in Engines : IsResult(res[e]) /\ res[e] = ret[e])

\* The one run of the session was a parallel one: its two results, which
\* differ in K, are stored and the results page is shown.
C33_Witness ==
    /\ runsLeft = 0
    /\ busy = "none"
    /\ page = "results"
    /\ \A e \in Engines : IsResult(res[e]) /\ res[e] = ret[e] /\ res[e].algo = algo_name(e)
    /\ res["sewell"].K # res["furini"].K

\* Result r is one of engine e on graph gd: it names e, colours the vertices
\* of gd properly and reports the clique bound of gd.
BelongsTo(r, e, gd) ==
    /\ r.algo = algo_name(e)
    /\ DOMAIN r.coloriage = 0..(gd.n - 1)
    /\ Proper(gd, r.coloriage)
    /\ r.LB = InitialLB(gd)

\* One step of the session with respect to the stored results.
C34_Step ==
    /\ \* Writing a graph to the session resets both results in the same step.
       (graph_data' # graph_data \/ graph_filename' # graph_filename \/ graph_pos' # graph_pos)
           => /\ \A e \in Engines : res'[e] = None
              /\ graph_data'.error = "none"
              /\ graph_pos' = build_graph_pos(graph_data')
    /\ \* A run of one engine writes the result of that engine only, and
       \* writes what the call returned.
       \A e \in Engines :
           (busy = e /\ res' # res)
               => /\ res'[e] = ret[e]
                  /\ \A f \in Engines \ {e} : res'[f] = res[f]
    /\ \* A stored result belongs to the stored graph.
       \A e \in Engines :
           IsResult(res'[e]) => BelongsTo(res'[e], e, graph_data')

\* C34: a stored result always belongs to the currently stored graph: the
\* step that writes a newly parsed graph to the session resets both stored
\* results, and a single-engine run overwrites only its own result.
C34_ResultsOfStoredGraph == [][C34_Step]_vars

\* After runs on one graph another graph was loaded, and one engine has run
\* alone on it: its result is stored, the other engine's stored result is none
\* although its last call, on the former graph, had returned one.
C34_Witness ==
    \E e \in Engines : \E f \in Engines \ {e} :
        /\ IsResult(res[e])
        /\ BelongsTo(res[e], e, graph_data)
        /\ res[f] = None
        /\ IsResult(ret[f])
        /\ ~BelongsTo(ret[f], f, graph_data)

====
